---- MODULE Spec2Model ----
(***************************************************************************)
(* Model of src/src/DogTreatFocusApp.jsx: the focus-session state machine, *)
(* the reward ledger and the donation recorder of the DogTreatFocusApp     *)
(* React component.                                                        *)
(*                                                                         *)
(* One step of the model is one event delivered to the component (a button *)
(* click, an interval callback, a visibilitychange event) together with    *)
(* the re-render and the effects React runs for the state it sets.         *)
(* A closure registered by an effect keeps the values of the render that   *)
(* registered it; the model keeps those captured values in onVis.          *)
(* The `at` timestamp of a history entry is a wall-clock reading and is    *)
(* left out of the entries.                                                *)
(* localStorage is the variable storage, a function from the keys present  *)
(* to the stored text; storeAccepts says whether setItem succeeds or       *)
(* throws (save() swallows the exception).                                 *)
(***************************************************************************)
EXTENDS Integers, Sequences, FiniteSets, TLC

\* ---------------------------------------------------------------- bounds
MaxDuration == 3
MaxTreatsPerSuccess == 2
MaxPledgeRate == 1
MaxHistory == 3

\* ------------------------------------------------------------- variables
VARIABLES
  duration, strictMode, treatsPerSuccess, pledgeRateCents, shelter,
  remaining, running, status, message,
  treats, donatedCents, history,
  tickRef, timers, onVis, rendered,
  storage, storeAccepts, io,
  last, ticks, startTreats, startHistory, undisturbed

config  == <<duration, strictMode, treatsPerSuccess, pledgeRateCents, shelter>>
session == <<remaining, running, status, message>>
ledger  == <<treats, donatedCents, history>>
clock   == <<tickRef, timers>>
aux     == <<last, ticks, startTreats, startHistory, undisturbed>>
store   == <<storage, storeAccepts, io>>
vars    == <<config, session, ledger, clock, onVis, rendered, store, aux>>

\* ------------------------------------------------------ values and helpers
Max(a, b) == IF a >= b THEN a ELSE b

NoTimer == -1
TimerIds == 0 .. 2

PlaceholderUrl == "https://"
ShelterUrls == {"", PlaceholderUrl, "https://shelter.example"}

VisNote == "Left tab - tree died."
GiveUpNote == "Stopped early"

\* line 79: `Nice! +${treatsPerSuccess} earned`
NiceMessage(n) == "Nice! +" \o ToString(n) \o " earned"
\* line 92: `Marked $${(outstandingCents/100).toFixed(2)} donated`
MarkedMessage(c) == "Marked " \o ToString(c) \o "c donated"

\* line 78: the entry complete() prepends
SuccessEntry(d, n) == [duration |-> d, success |-> TRUE, earnedTreats |-> n]

\* line 83 with the configured duration logged instead of the elapsed time
FailEntryFull(d, r) == [duration |-> d, success |-> FALSE]
\* line 83: the entry fail() prepends; d and r are the `duration` and
\* `remaining` of the render whose fail() is called
FailEntry(d, r) == [duration |-> d - r, success |-> FALSE]

\* lines 70-71
pledgedCents == treats * pledgeRateCents
outstandingCents == Max(0, pledgedCents - donatedCents)

\* lines 70-71 computed from the donations only when treats changed
RenderedAfterStale(nTreats, nDonated) ==
  IF nTreats = treats
  THEN rendered
  ELSE [pledgedCents |-> nTreats * pledgeRateCents,
        outstandingCents |-> Max(0, nTreats * pledgeRateCents - nDonated)]
\* lines 70-71 with the donations not subtracted
RenderedAfterIgnoringDonated(nTreats, nDonated) ==
  [pledgedCents |-> nTreats * pledgeRateCents,
   outstandingCents |-> Max(0, nTreats * pledgeRateCents)]
\* lines 70-71 as the render computes them for the state it renders; the
\* handlers of that render (donateNow) read these values
RenderedAfter(nTreats, nDonated) ==
  [pledgedCents |-> nTreats * pledgeRateCents,
   outstandingCents |-> Max(0, nTreats * pledgeRateCents - nDonated)]

\* line 63 completing only at r <= 0
TickCompletesAtZero(r) == r <= 0
\* line 63: if (r <= 1)
TickCompletes(r) == r <= 1

\* line 64 returning r
RemainingAfterTickStuck(r) == r
\* line 64: return r - 1
RemainingAfterTick(r) == r - 1

\* line 87 checking only for the empty url
shelterUnsetEmptyOnly == shelter.url = ""
\* line 87: !shelter?.url || shelter.url === "https://"
shelterUnset == shelter.url = "" \/ shelter.url = PlaceholderUrl

\* line 91 adding the whole pledge instead of the outstanding part
DonatedAfterPledged(c, out) == c + pledgedCents
\* line 91: setDonatedCents((c) => c + outstandingCents)
DonatedAfter(c, out) == c + out

\* line 54 without the strictMode test
onVisFiresNoStrict == onVis.running
\* line 54: document.hidden && running && strictMode, read from the closure
\* of the listener that is registered
onVisFires == onVis.running /\ onVis.strictMode

\* -------------------------------------------------------------- persistence
\* The text of a localStorage item is a sequence of tokens: one token per
\* punctuation mark, digit and literal, and one token per quoted string. The
\* encoder and the parser cover the JSON the component writes: integers,
\* booleans, the shelter object and the history array.
Keys == {"dtf_duration", "dtf_strict", "dtf_treatsPerSuccess",
         "dtf_pledgeRateCents", "dtf_shelter", "dtf_treats",
         "dtf_donatedCents", "dtf_history"}

DefaultShelter == [name |-> "Local Dog Shelter", url |-> PlaceholderUrl]

\* lines 25-29, 36-38: the fallback given to load() for each key
Fallback(key) ==
  CASE key = "dtf_duration" -> 25 * 60
    [] key = "dtf_strict" -> TRUE
    [] key = "dtf_treatsPerSuccess" -> 5
    [] key = "dtf_pledgeRateCents" -> 2
    [] key = "dtf_shelter" -> DefaultShelter
    [] key = "dtf_treats" -> 0
    [] key = "dtf_donatedCents" -> 0
    [] key = "dtf_history" -> <<>>

\* the shape of the value kept under each key
KindOf(key) ==
  CASE key \in {"dtf_duration", "dtf_treatsPerSuccess", "dtf_pledgeRateCents",
                "dtf_treats", "dtf_donatedCents"} -> "int"
    [] key = "dtf_strict" -> "bool"
    [] key = "dtf_shelter" -> "shelter"
    [] key = "dtf_history" -> "history"

DigitChar == <<"0", "1", "2", "3", "4", "5", "6", "7", "8", "9">>
Quote(s) == "\"" \o s \o "\""
KnownStrings ==
  {"name", "url", "duration", "success", "earnedTreats", "Local Dog Shelter"}
    \cup ShelterUrls

\* JSON.stringify of an integer
RECURSIVE NatDigits(_)
NatDigits(n) ==
  IF n < 10 THEN <<DigitChar[n + 1]>>
  ELSE NatDigits(n \div 10) \o <<DigitChar[(n % 10) + 1]>>
StringifyInt(n) == IF n < 0 THEN <<"-">> \o NatDigits(-n) ELSE NatDigits(n)

StringifyBool(b) == IF b THEN <<"true">> ELSE <<"false">>

\* JSON.stringify of { name, url }
StringifyShelter(r) ==
  <<"{", Quote("name"), ":", Quote(r.name), ",",
         Quote("url"), ":", Quote(r.url), "}">>

\* JSON.stringify of a history entry, keys in insertion order (lines 78, 83)
StringifyEntry(e) ==
  <<"{", Quote("duration"), ":">> \o StringifyInt(e.duration)
    \o <<",", Quote("success"), ":">> \o StringifyBool(e.success)
    \o (IF "earnedTreats" \in DOMAIN e
        THEN <<",", Quote("earnedTreats"), ":">> \o StringifyInt(e.earnedTreats)
        ELSE <<>>)
    \o <<"}">>

RECURSIVE StringifyEntries(_)
StringifyEntries(h) ==
  IF h = <<>> THEN <<>>
  ELSE IF Len(h) = 1 THEN StringifyEntry(h[1])
  ELSE StringifyEntry(h[1]) \o <<",">> \o StringifyEntries(Tail(h))
StringifyHistory(h) == <<"[">> \o StringifyEntries(h) \o <<"]">>

\* line 21: JSON.stringify(v) for the value kept under key
Stringify(key, v) ==
  CASE KindOf(key) = "int" -> StringifyInt(v)
    [] KindOf(key) = "bool" -> StringifyBool(v)
    [] KindOf(key) = "shelter" -> StringifyShelter(v)
    [] KindOf(key) = "history" -> StringifyHistory(v)

\* JSON.parse: a recursive-descent parser over the tokens. A result is
\* [ok, val, next]; ok = FALSE stands for the SyntaxError JSON.parse throws.
ParseFail == [ok |-> FALSE, val |-> 0, next |-> 0]
ParseOk(v, n) == [ok |-> TRUE, val |-> v, next |-> n]
IsDigit(t) == \E d \in 1 .. 10 : DigitChar[d] = t
DigitVal(t) == (CHOOSE d \in 1 .. 10 : DigitChar[d] = t) - 1
IsQuoted(t) == \E q \in KnownStrings : Quote(q) = t
Unquote(t) == CHOOSE q \in KnownStrings : Quote(q) = t

RECURSIVE ParseDigits(_, _, _)
ParseDigits(toks, i, acc) ==
  IF i <= Len(toks) /\ IsDigit(toks[i])
  THEN ParseDigits(toks, i + 1, 10 * acc + DigitVal(toks[i]))
  ELSE ParseOk(acc, i)

\* a JSON number: no leading zero before further digits
ParseNat(toks, i) ==
  IF i > Len(toks) \/ ~IsDigit(toks[i]) THEN ParseFail
  ELSE IF toks[i] = "0" THEN ParseOk(0, i + 1)
  ELSE ParseDigits(toks, i, 0)

ParseNumber(toks, i) ==
  IF toks[i] = "-"
  THEN LET r == ParseNat(toks, i + 1)
       IN IF r.ok THEN ParseOk(0 - r.val, r.next) ELSE ParseFail
  ELSE ParseNat(toks, i)

\* the object a sequence of <<key, value>> members denotes; a repeated key
\* keeps its last value
ObjectOf(members) ==
  [k \in {members[j][1] : j \in DOMAIN members} |->
     LET js == {j \in DOMAIN members : members[j][1] = k}
         top == CHOOSE j \in js : \A j2 \in js : j2 <= j
     IN members[top][2]]

RECURSIVE ParseValue(_, _), ParseElements(_, _, _), ParseMembers(_, _, _)
ParseValue(toks, i) ==
  IF i > Len(toks) THEN ParseFail
  ELSE LET t == toks[i]
       IN CASE t = "true" -> ParseOk(TRUE, i + 1)
            [] t = "false" -> ParseOk(FALSE, i + 1)
            [] IsQuoted(t) -> ParseOk(Unquote(t), i + 1)
            [] IsDigit(t) \/ t = "-" -> ParseNumber(toks, i)
            [] t = "[" ->
                 IF i + 1 <= Len(toks) /\ toks[i + 1] = "]"
                 THEN ParseOk(<<>>, i + 2)
                 ELSE ParseElements(toks, i + 1, <<>>)
            [] t = "{" ->
                 IF i + 1 <= Len(toks) /\ toks[i + 1] = "}"
                 THEN ParseOk(<<>>, i + 2)
                 ELSE ParseMembers(toks, i + 1, <<>>)
            [] OTHER -> ParseFail

ParseElements(toks, i, acc) ==
  LET r == ParseValue(toks, i)
  IN IF ~r.ok \/ r.next > Len(toks) THEN ParseFail
     ELSE IF toks[r.next] = ","
          THEN ParseElements(toks, r.next + 1, Append(acc, r.val))
     ELSE IF toks[r.next] = "]" THEN ParseOk(Append(acc, r.val), r.next + 1)
     ELSE ParseFail

ParseMembers(toks, i, acc) ==
  IF i + 1 > Len(toks) \/ ~IsQuoted(toks[i]) \/ toks[i + 1] # ":"
  THEN ParseFail
  ELSE LET r == ParseValue(toks, i + 2)
           ms == Append(acc, <<Unquote(toks[i]), r.val>>)
       IN IF ~r.ok \/ r.next > Len(toks) THEN ParseFail
          ELSE IF toks[r.next] = "," THEN ParseMembers(toks, r.next + 1, ms)
          ELSE IF toks[r.next] = "}" THEN ParseOk(ObjectOf(ms), r.next + 1)
          ELSE ParseFail

\* JSON.parse(text): the whole text must be one value
ParseJSON(text) ==
  LET r == ParseValue(text, 1)
  IN IF r.ok /\ r.next = Len(text) + 1 THEN r ELSE ParseFail

\* lines 12-19 with the fallback also replacing a falsy parsed value
loadOrFallback(s, key, fallback) ==
  IF key \notin DOMAIN s THEN fallback
  ELSE IF s[key] = <<>> THEN fallback
  ELSE LET r == ParseJSON(s[key])
       IN IF ~r.ok THEN fallback
          ELSE IF KindOf(key) = "int" /\ r.val = 0 THEN fallback
          ELSE IF KindOf(key) = "bool" /\ r.val = FALSE THEN fallback
          ELSE r.val
\* lines 12-19: load(key, fallback) on the store s. getItem gives null for a
\* missing key; null and the empty string are falsy; a SyntaxError is caught.
load(s, key, fallback) ==
  IF key \notin DOMAIN s THEN fallback
  ELSE IF s[key] = <<>> THEN fallback
  ELSE LET r == ParseJSON(s[key])
       IN IF r.ok THEN r.val ELSE fallback

\* lines 20-22: save(key, v) on the store s; accepts = FALSE is setItem
\* throwing, which the catch swallows
save(s, accepts, key, v) ==
  IF accepts
  THEN [k \in (DOMAIN s) \cup {key} |-> IF k = key THEN Stringify(key, v) ELSE s[k]]
  ELSE s

\* ------------------------------------------------------------------ effects
\* lines 59-68 without the cleanup function
TimersAfterEffectNoCleanup(t, ref, was, now) ==
  IF was = now THEN t
  ELSE IF now THEN t \cup {CHOOSE i \in TimerIds : i \notin t /\ i # ref}
       ELSE t
\* lines 59-68: the [running] effect. When running changes, the cleanup of
\* the previous run clears tickRef.current, then a run with running = true
\* creates an interval. t is the set of active intervals after the handler.
TimersAfterEffect(t, ref, was, now) ==
  IF was = now THEN t
  ELSE LET cleaned == IF was THEN t \ {ref} ELSE t
       IN IF now THEN cleaned \cup {CHOOSE i \in TimerIds : i \notin cleaned /\ i # ref}
          ELSE cleaned

\* line 61: tickRef.current = setInterval(...)
TickRefAfterEffect(t, ref, was, now) ==
  IF was # now /\ now
  THEN CHOOSE i \in TimerIds : i \in TimersAfterEffect(t, ref, was, now) /\ i \notin (t \ {ref})
  ELSE ref

\* line 51: if (status === "idle") setRemaining(duration), deps [duration, status]
RemainingAfterEffect(nStatus, nRemaining) ==
  IF nStatus = "idle" /\ nStatus # status THEN duration ELSE nRemaining

\* lines 53-57: the [running, strictMode] effect re-registers onVis, whose
\* closure holds the running, strictMode, duration and remaining of the
\* render that ran the effect
OnVisAfterEffect(nRunning, nRemaining) ==
  IF nRunning # running
  THEN [running |-> nRunning, strictMode |-> strictMode,
        duration |-> duration, remaining |-> nRemaining]
  ELSE onVis

\* lines 47-49 without the history effect
PersistEffectsNoHistory(s, nTreats, nDonated, nHistory) ==
  LET s1 == IF nTreats # treats
            THEN save(s, storeAccepts, "dtf_treats", nTreats) ELSE s
  IN IF nDonated # donatedCents
     THEN save(s1, storeAccepts, "dtf_donatedCents", nDonated) ELSE s1
\* lines 47-49: the effects that save treats, donatedCents and history run
\* after a render in which their value changed
PersistEffects(s, nTreats, nDonated, nHistory) ==
  LET s1 == IF nTreats # treats
            THEN save(s, storeAccepts, "dtf_treats", nTreats) ELSE s
      s2 == IF nDonated # donatedCents
            THEN save(s1, storeAccepts, "dtf_donatedCents", nDonated) ELSE s1
  IN IF nHistory # history
     THEN save(s2, storeAccepts, "dtf_history", nHistory) ELSE s2

\* The render and effects that follow a handler which set the given values.
\* t is the set of active intervals the handler left.
Commit(nRunning, nStatus, nMessage, nRemaining, nTreats, nDonated, nHistory, t) ==
  /\ running' = nRunning
  /\ status' = nStatus
  /\ message' = nMessage
  /\ remaining' = RemainingAfterEffect(nStatus, nRemaining)
  /\ treats' = nTreats
  /\ donatedCents' = nDonated
  /\ history' = nHistory
  /\ timers' = TimersAfterEffect(t, tickRef, running, nRunning)
  /\ tickRef' = TickRefAfterEffect(t, tickRef, running, nRunning)
  /\ onVis' = OnVisAfterEffect(nRunning, nRemaining)
  /\ rendered' = RenderedAfter(nTreats, nDonated)
  /\ storage' = PersistEffects(storage, nTreats, nDonated, nHistory)
  /\ UNCHANGED <<config, storeAccepts, io>>

\* ---------------------------------------------------------------------- Init
NoIo == [op |-> "none", key |-> "", fresh |-> FALSE, value |-> 0, result |-> 0]

\* lines 25-29, 36-38: the values the useState initialisers load from store s
Loaded(s) ==
  [duration |-> load(s, "dtf_duration", Fallback("dtf_duration")),
   strictMode |-> load(s, "dtf_strict", Fallback("dtf_strict")),
   treatsPerSuccess |->
     load(s, "dtf_treatsPerSuccess", Fallback("dtf_treatsPerSuccess")),
   pledgeRateCents |->
     load(s, "dtf_pledgeRateCents", Fallback("dtf_pledgeRateCents")),
   shelter |-> load(s, "dtf_shelter", Fallback("dtf_shelter")),
   treats |-> load(s, "dtf_treats", Fallback("dtf_treats")),
   donatedCents |-> load(s, "dtf_donatedCents", Fallback("dtf_donatedCents")),
   history |-> load(s, "dtf_history", Fallback("dtf_history"))]

\* lines 42-49: on mount every persistence effect runs once
MountSaves(s, accepts, m) ==
  LET s1 == save(s, accepts, "dtf_duration", m.duration)
      s2 == save(s1, accepts, "dtf_strict", m.strictMode)
      s3 == save(s2, accepts, "dtf_treatsPerSuccess", m.treatsPerSuccess)
      s4 == save(s3, accepts, "dtf_pledgeRateCents", m.pledgeRateCents)
      s5 == save(s4, accepts, "dtf_shelter", m.shelter)
      s6 == save(s5, accepts, "dtf_treats", m.treats)
      s7 == save(s6, accepts, "dtf_donatedCents", m.donatedCents)
  IN save(s7, accepts, "dtf_history", m.history)

\* the stores that hold settings with a session of D seconds and no ledger
StoredSettings(D) ==
  {[k \in {"dtf_duration", "dtf_strict", "dtf_treatsPerSuccess",
           "dtf_pledgeRateCents", "dtf_shelter"} |-> Stringify(k, c[k])] :
     c \in [dtf_duration : {D}, dtf_strict : BOOLEAN,
            dtf_treatsPerSuccess : 0 .. MaxTreatsPerSuccess,
            dtf_pledgeRateCents : 0 .. MaxPledgeRate,
            dtf_shelter : [name : {"Local Dog Shelter"}, url : ShelterUrls]]}

\* lines 25-49: the mount of the component on the store s0
Mounted(s0, accepts) ==
  \E m \in {Loaded(s0)} :
     /\ duration = m.duration
     /\ strictMode = m.strictMode
     /\ treatsPerSuccess = m.treatsPerSuccess
     /\ pledgeRateCents = m.pledgeRateCents
     /\ shelter = m.shelter
     /\ remaining = m.duration
     /\ running = FALSE
     /\ status = "idle"
     /\ message = ""
     /\ treats = m.treats
     /\ donatedCents = m.donatedCents
     /\ history = m.history
     /\ tickRef = NoTimer
     /\ timers = {}
     /\ onVis = [running |-> FALSE, strictMode |-> m.strictMode,
                 duration |-> m.duration, remaining |-> m.duration]
     /\ rendered =
          [pledgedCents |-> m.treats * m.pledgeRateCents,
           outstandingCents |->
             Max(0, m.treats * m.pledgeRateCents - m.donatedCents)]
     /\ storage = MountSaves(s0, accepts, m)
     /\ storeAccepts = accepts
     /\ io = NoIo

\* lines 25-40: first mount on a store that holds settings and no ledger,
\* so the ledger starts from its fallbacks
InitFor(D) ==
  /\ \E s0 \in StoredSettings(D), accepts \in BOOLEAN : Mounted(s0, accepts)
  /\ last = "init"
  /\ ticks = 0
  /\ startTreats = 0
  /\ startHistory = <<>>
  /\ undisturbed = FALSE

Init == \E D \in 1 .. MaxDuration : InitFor(D)

\* ------------------------------------------------------------------ handlers
\* line 73
start ==
  /\ Commit(TRUE, "running", "", remaining, treats, donatedCents, history, timers)
  /\ last' = "start"
  /\ ticks' = 0
  /\ startTreats' = treats
  /\ startHistory' = history
  /\ undisturbed' = TRUE

\* line 74 with the history cleared as well
resetClearingHistory ==
  /\ Commit(FALSE, "idle", "", duration, treats, donatedCents, <<>>, timers)
  /\ last' = "reset:" \o status
  /\ undisturbed' = FALSE
  /\ UNCHANGED <<ticks, startTreats, startHistory>>
\* line 74
reset ==
  /\ Commit(FALSE, "idle", "", duration, treats, donatedCents, history, timers)
  /\ last' = "reset:" \o status
  /\ undisturbed' = FALSE
  /\ UNCHANGED <<ticks, startTreats, startHistory>>

\* lines 81-85 without setRunning(false)
failKeepsRunning(note, d, r) ==
  Commit(running, "failed", IF note = "" THEN "Failed" ELSE note, remaining,
         treats, donatedCents, <<FailEntry(d, r)>> \o history, timers)
\* lines 81-85: fail(note) of a render whose duration and remaining are d, r
fail(note, d, r) ==
  Commit(FALSE, "failed", IF note = "" THEN "Failed" ELSE note, remaining,
         treats, donatedCents, <<FailEntry(d, r)>> \o history, timers)

\* lines 75-80 applied n times: the ledger after n calls of complete()
TreatsAfterComplete(n) == treats + n * treatsPerSuccess
HistoryAfterComplete(n) ==
  [i \in 1 .. n |-> SuccessEntry(duration, treatsPerSuccess)] \o history

\* lines 62-65: complete() is called from inside the setRemaining updater.
\* React calls an updater once, and calls it a second time in a development
\* build under StrictMode, so the number of calls is 1 or 2.
UpdaterCalls == {1, 2}

\* line 107 with the Start Focus button rendered whenever !running
ClickStartWheneverStopped ==
  /\ ~running
  /\ Len(history) + 2 <= MaxHistory
  /\ start
\* line 107: the Start Focus button, rendered when !running and status idle
ClickStart ==
  /\ ~running /\ status = "idle"
  /\ Len(history) + 2 <= MaxHistory
  /\ start

\* line 107: the Reset button, rendered when !running and status not idle
ClickReset ==
  /\ ~running /\ status # "idle"
  /\ reset

\* line 106: the Give Up button, rendered when running; its fail() belongs to
\* the current render
ClickGiveUp ==
  /\ running
  /\ fail(GiveUpNote, duration, remaining)
  /\ last' = "giveUp"
  /\ undisturbed' = FALSE
  /\ UNCHANGED <<ticks, startTreats, startHistory>>

\* lines 53-57: a visibilitychange event with document.hidden = true; the
\* listener is the one the effect registered, with that render's fail()
VisibilityLost ==
  /\ IF onVisFires
     THEN fail(VisNote, onVis.duration, onVis.remaining)
     ELSE UNCHANGED <<config, session, ledger, clock, onVis, rendered, store>>
  /\ last' = "vis"
  /\ undisturbed' = FALSE
  /\ UNCHANGED <<ticks, startTreats, startHistory>>

\* lines 61-66: one firing of an active interval
Tick ==
  \E id \in timers :
    /\ IF TickCompletes(remaining)
       THEN \E n \in UpdaterCalls :
              Commit(FALSE, "done", NiceMessage(treatsPerSuccess), 0,
                     TreatsAfterComplete(n), donatedCents,
                     HistoryAfterComplete(n), timers \ {tickRef})
       ELSE Commit(running, status, message, RemainingAfterTick(remaining),
                   treats, donatedCents, history, timers)
    /\ last' = "tick"
    /\ ticks' = ticks + 1
    /\ UNCHANGED <<startTreats, startHistory, undisturbed>>

\* lines 86-94: the Donate Now button; ok is the answer to confirm()
donateNow(ok) ==
  /\ IF shelterUnset \/ rendered.outstandingCents <= 0 \/ ~ok
     THEN UNCHANGED <<config, session, ledger, clock, onVis, rendered, store>>
     ELSE Commit(running, status, MarkedMessage(rendered.outstandingCents),
                 remaining,
                 treats, DonatedAfter(donatedCents, rendered.outstandingCents),
                 history, timers)
  /\ last' = IF ok THEN "donate:yes" ELSE "donate:no"
  /\ undisturbed' = FALSE
  /\ UNCHANGED <<ticks, startTreats, startHistory>>

ClickDonate == \E ok \in BOOLEAN : donateNow(ok)

Next ==
  \/ ClickStart
  \/ ClickReset
  \/ ClickGiveUp
  \/ VisibilityLost
  \/ Tick
  \/ ClickDonate

Spec == Init /\ [][Next]_vars

\* lines 61-66: an active interval keeps firing, once a second
SpecFair == Spec /\ WF_vars(Tick)

\* line 74: reset() called in any state, also where its button is not rendered
CallReset == reset

NextApi ==
  \/ Next
  \/ CallReset

SpecApi == Init /\ [][NextApi]_vars

\* lines 24-49: the page is reloaded and the component mounts again on the
\* store as it is; intervals and listeners of the old page are gone
Restart ==
  /\ \E m \in {Loaded(storage)} :
        /\ duration' = m.duration
        /\ strictMode' = m.strictMode
        /\ treatsPerSuccess' = m.treatsPerSuccess
        /\ pledgeRateCents' = m.pledgeRateCents
        /\ shelter' = m.shelter
        /\ remaining' = m.duration
        /\ running' = FALSE
        /\ status' = "idle"
        /\ message' = ""
        /\ treats' = m.treats
        /\ donatedCents' = m.donatedCents
        /\ history' = m.history
        /\ tickRef' = NoTimer
        /\ timers' = {}
        /\ onVis' = [running |-> FALSE, strictMode |-> m.strictMode,
                     duration |-> m.duration, remaining |-> m.duration]
        /\ rendered' =
             [pledgedCents |-> m.treats * m.pledgeRateCents,
              outstandingCents |->
                Max(0, m.treats * m.pledgeRateCents - m.donatedCents)]
        /\ storage' = MountSaves(storage, storeAccepts, m)
  /\ last' = "restart:" \o status
  /\ undisturbed' = FALSE
  /\ UNCHANGED <<storeAccepts, io, ticks, startTreats, startHistory>>

NextRestart ==
  \/ Next
  \/ Restart

SpecRestart == Init /\ [][NextRestart]_vars

\* ---------------------------------------------------- load and save alone
\* The values save() is given for each key
EntryValues ==
  [duration : 0 .. MaxDuration, success : {FALSE}]
    \cup [duration : 1 .. MaxDuration, success : {TRUE},
          earnedTreats : 0 .. MaxTreatsPerSuccess]
IntValues == (0 .. 12) \cup {100, 25 * 60}
ValuesOf(key) ==
  CASE KindOf(key) = "int" -> IntValues
    [] KindOf(key) = "bool" -> BOOLEAN
    [] KindOf(key) = "shelter" -> [name : {"Local Dog Shelter"}, url : ShelterUrls]
    [] KindOf(key) = "history" ->
         UNION {[1 .. n -> EntryValues] : n \in 0 .. 2}

\* stored strings that are not JSON; the first is the empty string
BadTexts ==
  {<<>>, <<"{">>, <<"[", "1">>, <<"1", ",">>, <<"0", "1">>, <<"]">>,
   <<"tru">>, <<"{", Quote("name"), "}">>, <<"[", "1", ",", "]">>}

\* localStorage.clear()
StoreClear ==
  /\ storage' = <<>>
  /\ io' = [NoIo EXCEPT !.op = "clear"]
  /\ UNCHANGED <<config, session, ledger, clock, onVis, rendered, aux, storeAccepts>>

\* lines 20-22: save(key, v) on a store that holds at most that key
StoreSave ==
  \E key \in Keys :
    /\ DOMAIN storage \subseteq {key}
    /\ \E v \in ValuesOf(key) :
         /\ storage' = save(storage, storeAccepts, key, v)
         /\ io' = [op |-> "save", key |-> key, fresh |-> FALSE,
                   value |-> v, result |-> v]
    /\ UNCHANGED <<config, session, ledger, clock, onVis, rendered, aux, storeAccepts>>

\* lines 12-19: load(key, fallback) with the fallback the component gives;
\* fresh records that the step before was a save of the same key, whose
\* value is kept for comparison
StoreLoad ==
  \E key \in Keys :
    /\ io' = [op |-> "load", key |-> key,
              fresh |-> (io.op = "save" /\ io.key = key),
              value |-> IF io.op = "save" /\ io.key = key
                        THEN io.value ELSE Fallback(key),
              result |-> load(storage, key, Fallback(key))]
    /\ UNCHANGED <<config, session, ledger, clock, onVis, rendered, aux,
                   storage, storeAccepts>>

\* the item of a key is overwritten from outside with a string that is not
\* JSON
StoreTamper ==
  \E key \in Keys, text \in BadTexts :
    /\ DOMAIN storage \subseteq {key}
    /\ storage' = [k \in {key} |-> text]
    /\ io' = [NoIo EXCEPT !.op = "tamper", !.key = key]
    /\ UNCHANGED <<config, session, ledger, clock, onVis, rendered, aux, storeAccepts>>

\* the component mounted on an empty store: every value is its fallback
InitStore ==
  /\ \E accepts \in BOOLEAN : Mounted(<<>>, accepts)
  /\ last = "init"
  /\ ticks = 0
  /\ startTreats = 0
  /\ startHistory = <<>>
  /\ undisturbed = FALSE

NextStore ==
  \/ StoreClear
  \/ StoreSave
  \/ StoreLoad
  \/ StoreTamper

SpecStore == InitStore /\ [][NextStore]_vars

\* One session of 100 seconds from the first mount
Init100 == InitFor(100)

Next100 == Next /\ startHistory' = <<>>

Spec100 == Init100 /\ [][Next100]_vars

\* ================================================================== claims
ResetOps == {"reset:idle", "reset:running", "reset:done", "reset:failed"}
DonateOps == {"donate:yes", "donate:no"}

\* C1: from idle, start() followed by exactly `duration` ticks and no other
\* event ends in status done with remaining 0, treats increased by exactly
\* treatsPerSuccess and exactly one new entry at the front of the history
\* (success, duration = the configured duration, earnedTreats =
\* treatsPerSuccess); with fewer ticks the session is still running.
C1_TickToZero ==
  undisturbed =>
    IF ticks = duration
    THEN /\ status = "done"
         /\ remaining = 0
         /\ treats = startTreats + treatsPerSuccess
         /\ history = <<[duration |-> duration, success |-> TRUE,
                         earnedTreats |-> treatsPerSuccess]>> \o startHistory
    ELSE /\ status = "running"
         /\ ticks < duration

\* C2: every failure of a running session, by give-up or by visibility loss,
\* prepends an entry with success = FALSE, no earnedTreats field, and
\* duration = duration - remaining at the moment of failure, which is the
\* number of ticks delivered since start().
C2_FailureDuration ==
  [][(status = "running" /\ status' = "failed") =>
       /\ history' = <<[duration |-> duration - remaining, success |-> FALSE]>> \o history
       /\ "earnedTreats" \notin DOMAIN Head(history')
       /\ duration - remaining = ticks]_vars

\* C3 as stated: with duration 100, 37 ticks and then give-up, the new
\* entry has success = FALSE and duration = 63, and treats is unchanged.
C3_EarlyFailure63 ==
  [][(duration = 100 /\ undisturbed /\ ticks = 37 /\ last' = "giveUp") =>
       /\ Len(history') = Len(history) + 1
       /\ Head(history').success = FALSE
       /\ Head(history').duration = 63
       /\ treats' = treats]_vars

\* C3 amended: with duration 100, 37 ticks and then give-up, the new entry
\* has success = FALSE and duration = 37 (the elapsed seconds, duration -
\* remaining with remaining = 63), and treats is unchanged.
C3_EarlyFailure37 ==
  [][(duration = 100 /\ undisturbed /\ ticks = 37 /\ last' = "giveUp") =>
       /\ Len(history') = Len(history) + 1
       /\ Head(history').success = FALSE
       /\ Head(history').duration = 37
       /\ remaining = 63
       /\ treats' = treats]_vars

C3_Witness ==
  /\ duration = 100 /\ last = "giveUp" /\ ticks = 37
  /\ status = "failed" /\ remaining = 63
  /\ Len(history) = 1 /\ Head(history).duration = 37

\* C4: with the session running and strictMode on, a visibility-lost signal
\* after any number of ticks gives exactly the state the give-up with the
\* note "Left tab - tree died." gives from the same state: status failed,
\* clock stopped, that message, treats unchanged, and the same prepended
\* entry (success = FALSE, duration = duration - remaining).
C4_VisibilityIsGiveUp ==
  [][(last' = "vis" /\ running /\ strictMode) =>
       /\ status' = "failed"
       /\ running' = FALSE
       /\ timers' = {}
       /\ message' = VisNote
       /\ remaining' = remaining
       /\ treats' = treats
       /\ donatedCents' = donatedCents
       /\ history' = <<[duration |-> duration - remaining, success |-> FALSE]>> \o history]_vars

\* C5: a visibility-lost signal while the session is not running, or while
\* strictMode is off, leaves status, remaining, running, message, treats,
\* donatedCents and history unchanged.
C5_VisibilityNoOp ==
  [][(last' = "vis" /\ (~running \/ status # "running" \/ ~strictMode)) =>
       UNCHANGED <<status, remaining, running, message,
                   treats, donatedCents, history>>]_vars

C5_Witness ==
  /\ last = "vis" /\ status = "running" /\ running /\ ~strictMode
  /\ ticks > 0 /\ Len(history) > 0

\* C6: an interval exists only while the session is running, at most one
\* interval is active at any time, and no tick is processed in a state whose
\* status is not running.
C6_ClockScoped ==
  /\ [](/\ Cardinality(timers) <= 1
        /\ timers # {} => (status = "running" /\ running))
  /\ [][last' = "tick" => (status = "running" /\ running)]_vars

C6_Witness ==
  /\ status = "running" /\ Cardinality(timers) = 1 /\ last = "tick"
  /\ Len(history) > 0

\* C7: every terminal transition (running to done, running to failed) does
\* its ledger update exactly once: the history grows by exactly one entry,
\* on success treats grows by treatsPerSuccess exactly once, on failure
\* treats is unchanged; and the ledger's history changes in no other step.
C7_LedgerOncePerTerminal ==
  [][/\ (status = "running" /\ status' \in {"done", "failed"}) =>
          /\ Len(history') = Len(history) + 1
          /\ status' = "done" => treats' = treats + treatsPerSuccess
          /\ status' = "failed" => treats' = treats
     /\ (history' # history) =>
          (status = "running" /\ status' \in {"done", "failed"})]_vars

\* C8 as stated: reset() from any status never changes treats, donatedCents
\* or history; it changes only status and remaining (status idle, remaining
\* = duration) and stops the clock.
C8_ResetOnlyStatusRemaining ==
  [][last' \in ResetOps =>
       /\ UNCHANGED <<treats, donatedCents, history>>
       /\ UNCHANGED <<config, message>>
       /\ status' = "idle" /\ remaining' = duration
       /\ running' = FALSE /\ timers' = {}]_vars

\* C8 amended: reset() from any status never changes treats, donatedCents
\* or history; it changes only status, remaining and message (status idle,
\* remaining = duration, message cleared) and stops the clock.
C8_ResetFrame ==
  [][last' \in ResetOps =>
       /\ UNCHANGED <<treats, donatedCents, history>>
       /\ UNCHANGED config
       /\ status' = "idle" /\ remaining' = duration /\ message' = ""
       /\ running' = FALSE /\ timers' = {}]_vars

C8_Witness ==
  /\ last = "reset:running" /\ status = "idle"
  /\ Len(history) > 0 /\ treats > 0 /\ donatedCents > 0

\* C9: donateNow leaves donatedCents, treats, history and the session state
\* unchanged when the shelter url is empty or the placeholder "https://",
\* when outstandingCents <= 0, or when the user declines; donatedCents
\* changes only in a confirmed donation with the url set and
\* outstandingCents > 0.
C9_DonateGuards ==
  [][/\ (/\ last' \in DonateOps
         /\ \/ shelter.url = ""
            \/ shelter.url = "https://"
            \/ Max(0, treats * pledgeRateCents - donatedCents) <= 0
            \/ last' = "donate:no") =>
          UNCHANGED <<session, ledger, clock>>
     /\ (donatedCents' # donatedCents) =>
          /\ last' = "donate:yes"
          /\ shelter.url \notin {"", "https://"}
          /\ treats * pledgeRateCents - donatedCents > 0]_vars

C9_Witness ==
  /\ last = "donate:yes" /\ shelter.url = "https://"
  /\ treats * pledgeRateCents - donatedCents > 0

\* C10: donateNow never decreases donatedCents, and right after a confirmed
\* donation outstandingCents is 0: donatedCents grew by exactly the
\* outstandingCents seen before the donation.
C10_DonateSettles ==
  [][last' \in DonateOps =>
       /\ donatedCents' >= donatedCents
       /\ (/\ last' = "donate:yes"
           /\ shelter.url \notin {"", "https://"}
           /\ treats * pledgeRateCents - donatedCents > 0) =>
            /\ donatedCents' =
                 donatedCents + Max(0, treats * pledgeRateCents - donatedCents)
            /\ Max(0, treats' * pledgeRateCents' - donatedCents') = 0]_vars

C10_Witness ==
  /\ last = "donate:yes" /\ donatedCents > 0
  /\ donatedCents = treats * pledgeRateCents
  /\ Len(history) >= 2

Terminal == status = "running" /\ status' \in {"done", "failed"}

\* C11: in every reachable state, from treats = 0 and donatedCents = 0 and
\* after any interleaving of sessions, failures, resets and donations,
\* donatedCents <= pledgedCents = treats * pledgeRateCents.
C11_DonatedWithinPledge ==
  /\ 0 <= donatedCents
  /\ donatedCents <= treats * pledgeRateCents

C11_Witness ==
  /\ 0 < donatedCents /\ donatedCents < treats * pledgeRateCents
  /\ last = "tick" /\ status = "done"

\* C12: in every state, the outstandingCents (and pledgedCents) that the
\* handlers of the current render read equal max(0, treats * pledgeRateCents
\* - donatedCents) (and treats * pledgeRateCents) of the current treats and
\* donatedCents, never a value from before the latest ledger change.
C12_DerivedFresh ==
  /\ rendered.pledgedCents = treats * pledgeRateCents
  /\ rendered.outstandingCents =
       (IF treats * pledgeRateCents - donatedCents > 0
        THEN treats * pledgeRateCents - donatedCents ELSE 0)

C12_Witness ==
  /\ last = "donate:yes" /\ donatedCents > 0
  /\ rendered.outstandingCents = 0 /\ rendered.pledgedCents = donatedCents
  /\ status = "running"

\* C13: the history is append-only: every terminal transition prepends
\* exactly one entry, and every step leaves the history unchanged or
\* prepends to it, the previous history being the rest of the new one.
C13_HistoryAppendOnly ==
  [][/\ Terminal => (Len(history') = Len(history) + 1 /\ Tail(history') = history)
     /\ ~Terminal => history' = history]_vars

\* C14: treats never decreases and changes only on a successful completion,
\* where it grows by exactly treatsPerSuccess; a failure, a reset and a
\* donation leave it unchanged.
C14_TreatsOnlyOnSuccess ==
  [][IF status = "running" /\ status' = "done"
     THEN treats' = treats + treatsPerSuccess
     ELSE treats' = treats]_vars

C18_RunningIffStatus == running <=> (status = "running")

C18_Witness ==
  /\ status = "failed" /\ ~running /\ last = "vis" /\ ticks > 0

\* C19: in every reachable state 0 <= remaining <= duration; idle implies
\* remaining = duration, done implies remaining = 0, running implies
\* remaining >= 1.
C19_RemainingRange ==
  /\ 0 <= remaining /\ remaining <= duration
  /\ status = "idle" => remaining = duration
  /\ status = "done" => remaining = 0
  /\ status = "running" => remaining >= 1

C19_Witness ==
  /\ status = "running" /\ remaining = 1 /\ duration > 1 /\ last = "tick"

\* C20: with the interval firing fairly, every running session eventually
\* leaves the running state; a session is done after exactly `duration`
\* ticks and is still short of them while it runs.
C20_SessionEnds ==
  /\ (status = "running") ~> (status # "running")
  /\ [](status = "running" => ticks < duration)
  /\ [](status = "done" => ticks = duration)

C20_Witness ==
  /\ status = "done" /\ last = "tick" /\ ticks = duration /\ duration > 1
  /\ undisturbed

RestartOps == {"restart:idle", "restart:running", "restart:done", "restart:failed"}

\* C16: a restart at any point, also while a session is running, begins idle
\* with running false, no message and remaining = the persisted duration;
\* the session in flight is not restored, and treats, donatedCents and
\* history are their last persisted values: the current ones when the store
\* takes the writes, the fallbacks when it never took one.
C16_RestartFresh ==
  [][last' \in RestartOps =>
       /\ status' = "idle" /\ running' = FALSE /\ message' = ""
       /\ timers' = {}
       /\ duration' = duration /\ remaining' = duration
       /\ UNCHANGED <<strictMode, treatsPerSuccess, pledgeRateCents, shelter>>
       /\ IF storeAccepts
          THEN treats' = treats /\ donatedCents' = donatedCents
               /\ history' = history
          ELSE treats' = 0 /\ donatedCents' = 0 /\ history' = <<>>]_vars

C16_Witness ==
  /\ last = "restart:running" /\ status = "idle" /\ remaining = duration
  /\ ticks > 0 /\ duration > 1
  /\ treats > 0 /\ donatedCents > 0 /\ Len(history) > 0

====
